---- MODULE Spec2Model ----
(***************************************************************************)
(* The contribution ledger of the church wishlist (src/main.jsx).          *)
(*                                                                         *)
(* The store is the Firestore collection of wishlist items plus one        *)
(* 'contributions' subcollection per item.  Every browser session is a     *)
(* client that holds a snapshot of one item (currentEditingItem, taken     *)
(* when its card is clicked) and runs the handlers of the App component:   *)
(* handleContribute, handleSubmitItem, handleDeleteItem.                   *)
(*                                                                         *)
(* Money is modelled in whole currency units (integers), which JavaScript  *)
(* numbers add exactly; the rounding epsilon of the specification is       *)
(* smaller than one unit and is therefore 0 here.                          *)
(***************************************************************************)
EXTENDS Integers, Sequences, FiniteSets, TLC

\* ---------------------------------------------------------------- bounds
\* browser sessions of the general specification
NumClients == 2
\* documents ever added to the collection
MaxItems == 1
\* largest expected cost an admin enters
MaxCost == 2
\* largest contribution amount a caller enters
MaxAmount == 2
\* successful edits per item
MaxEdits == 1
\* callers of the contribution race
NumRacers == 6
\* browser sessions that start up against the empty collection
NumSeeders == 2

\* ------------------------------------------------------ program constants
\* isAdmin = user?.uid === 'your-admin-uid': client 1 is signed in with it.
AdminUid == 1
\* runTransaction is called without options: the SDK makes 5 attempts.
MaxAttempts == 5

\* A document that does not exist.
NoDoc == [exists |-> FALSE]
\* currentEditingItem = null, or the details modal is hidden: nothing reads it.
NoItem == [id |-> 0]
\* contributorId is not set on the document.
NoUser == 0
NoOutcome == [op |-> "none", id |-> 0, amount |-> 0, result |-> "none", wasPending |-> FALSE]
\* wasPending is history: the stored status was 'Pending' when the request left.
NoTxn == [id |-> 0, amount |-> 0, attempt |-> 0, read |-> NoDoc, wasPending |-> FALSE]

Costs == 1 .. MaxCost
\* What a caller can leave in the amount field: nothing, or a number.
AmountInputs ==
    {[blank |-> TRUE, n |-> 0]} \cup {[blank |-> FALSE, n |-> k] : k \in -1 .. MaxAmount}
ContributionTypes == {"item", "cash"}

VARIABLES
    store,               \* wishlistItems: id -> document or NoDoc
    contributions,       \* id -> the item's 'contributions' subcollection
    nextId,              \* ids are fresh: the next one addDoc hands out
    currentEditingItem,  \* client -> snapshot of the item in its details modal
    pc,                  \* client -> the request it has in flight
    txn,                 \* client -> state of its in-flight request
    outcome,             \* client -> the alert its last handler call raised
    edits,               \* history: id -> successful edits of the item
    committed            \* history: id -> transactions that reported success

vars == <<store, contributions, nextId, currentEditingItem, pc, txn, outcome,
          edits, committed>>

Clients == DOMAIN pc
ItemIds == DOMAIN store
\* Mutant of isAdmin: the gate lets every signed-in user through.
isAdmin_Anyone(c) == c \in Clients

isAdmin(c) == c = AdminUid
Exists(id) == store[id].exists

StoredPending(id) == Exists(id) /\ store[id].status = "Pending"

\* ------------------------------------------------------------ pure helpers
\* parseFloat(contributionAmount): NaN for an empty field, else the number.
parseFloat(input) == [isNaN |-> input.blank, n |-> input.n]

\* The object handleSubmitItem builds from the form.
itemData(ctype, partialChecked, cost) ==
    [contributionType |-> ctype,
     expectedCost |-> cost,
     isPartialAllowed |-> (ctype = "cash" /\ partialChecked)]

\* The document addDoc writes for a new item (version is its updateTime).
NewItem(data) ==
    [exists |-> TRUE,
     contributionType |-> data.contributionType,
     expectedCost |-> data.expectedCost,
     isPartialAllowed |-> data.isPartialAllowed,
     status |-> "Pending",
     currentContributions |-> 0,
     contributorId |-> NoUser,
     version |-> 1]

\* Mutant of EditedItem: the edit replaces the document (setDoc) by the
\* form's fields and the defaults of a new item.
EditedItem_Replace(d, data) == [NewItem(data) EXCEPT !.version = d.version + 1]

\* updateDoc(ref, {...itemData, updatedAt}): only the form's fields are written.
EditedItem(d, data) ==
    [d EXCEPT !.contributionType = data.contributionType,
              !.expectedCost = data.expectedCost,
              !.isPartialAllowed = data.isPartialAllowed,
              !.version = @ + 1]

\* updateDoc(itemRef, {status: 'Signed Up', contributorId, contributorName}).
SignedUp(d, uid) ==
    [d EXCEPT !.status = "Signed Up", !.contributorId = uid, !.version = @ + 1]

\* Mutant of newStatus: the target must be exceeded, not met.
newStatus_Strict(newContributions, expectedCost) ==
    IF newContributions > expectedCost THEN "Completed" ELSE "Signed Up"

newStatus(newContributions, expectedCost) ==
    IF newContributions >= expectedCost THEN "Completed" ELSE "Signed Up"

\* Mutant of Contributed: the new total is capped at the expected cost.
Contributed_Capped(d, read, amount) ==
    LET sum == read.currentContributions + amount
        newContributions == IF sum > read.expectedCost THEN read.expectedCost ELSE sum
    IN [d EXCEPT !.currentContributions = newContributions,
                 !.status = newStatus(newContributions, read.expectedCost),
                 !.version = @ + 1]

\* transaction.update(itemRef, {currentContributions, status}), computed from
\* the document the transaction read.
Contributed(d, read, amount) ==
    LET newContributions == read.currentContributions + amount
    IN [d EXCEPT !.currentContributions = newContributions,
                 !.status = newStatus(newContributions, read.expectedCost),
                 !.version = @ + 1]

\* transaction.set(contributionsDocRef, {userId, amount, timestamp, contributorName}).
ContributionRecord(uid, amount) == [userId |-> uid, amount |-> amount]

\* The entry of the items list a card is rendered from: {id: doc.id, ...doc.data()}.
\* Only the fields a handler or the form gate reads are kept.
ItemSnapshot(id) ==
    [id |-> id,
     contributionType |-> store[id].contributionType,
     isPartialAllowed |-> store[id].isPartialAllowed,
     status |-> store[id].status]

\* The order the item list is sorted in: Pending, Signed Up, Completed.
statusOrder(status) ==
    CASE status = "Pending" -> 1
      [] status = "Signed Up" -> 2
      [] status = "Completed" -> 3

\* showAlert(message), kept as the call it answers and its kind of message.
\* "ignored" stands for a call that returned without any message.
Report(c, op, id, amount, result) ==
    outcome' = [outcome EXCEPT ![c] =
                  [op |-> op, id |-> id, amount |-> amount, result |-> result,
                   wasPending |-> txn[c].wasPending]]

\* ------------------------------------------------------------------ Init
\* An empty collection and NumClients sessions with no modal open.
Init ==
    /\ store = [id \in 1 .. MaxItems |-> NoDoc]
    /\ contributions = [id \in 1 .. MaxItems |-> <<>>]
    /\ nextId = 1
    /\ currentEditingItem = [c \in 1 .. NumClients |-> NoItem]
    /\ pc = [c \in 1 .. NumClients |-> "idle"]
    /\ txn = [c \in 1 .. NumClients |-> NoTxn]
    /\ outcome = [c \in 1 .. NumClients |-> NoOutcome]
    /\ edits = [id \in 1 .. MaxItems |-> 0]
    /\ committed = [id \in 1 .. MaxItems |-> 0]

\* --------------------------------------------------------------- actions
\* A click on an item's card: the details modal opens on the item as listed.
OpenDetails(c, id) ==
    /\ pc[c] = "idle"
    /\ outcome[c] = NoOutcome
    /\ Exists(id)
    /\ currentEditingItem' = [currentEditingItem EXCEPT ![c] = ItemSnapshot(id)]
    /\ UNCHANGED <<store, contributions, nextId, pc, txn, outcome, edits, committed>>

\* handleSubmitItem with isEditing = false: the admin adds an item.
AddItem(c, ctype, partialChecked, cost) ==
    /\ pc[c] = "idle"
    /\ outcome[c] = NoOutcome
    /\ IF ~isAdmin(c)
       THEN /\ Report(c, "add", 0, 0, "denied")
            /\ UNCHANGED <<store, nextId, currentEditingItem>>
       ELSE /\ nextId \in ItemIds
            /\ store' = [store EXCEPT ![nextId] = NewItem(itemData(ctype, partialChecked, cost))]
            /\ nextId' = nextId + 1
            /\ currentEditingItem' = [currentEditingItem EXCEPT ![c] = NoItem]
            /\ Report(c, "add", nextId, 0, "ok")
    /\ UNCHANGED <<contributions, pc, txn, edits, committed>>

\* handleEditClick on the item of the details modal, then handleSubmitItem
\* with isEditing = true: one blind updateDoc of the form's fields.
EditItem(c, ctype, partialChecked, cost) ==
    /\ pc[c] = "idle"
    /\ outcome[c] = NoOutcome
    /\ currentEditingItem[c] # NoItem
    /\ LET id == currentEditingItem[c].id
       IN IF ~isAdmin(c)
          THEN /\ Report(c, "edit", id, 0, "denied")
               /\ UNCHANGED <<store, currentEditingItem, edits>>
          ELSE IF Exists(id)
          THEN /\ edits[id] < MaxEdits
               /\ store' = [store EXCEPT ![id] = EditedItem(@, itemData(ctype, partialChecked, cost))]
               /\ edits' = [edits EXCEPT ![id] = @ + 1]
               /\ currentEditingItem' = [currentEditingItem EXCEPT ![c] = NoItem]
               /\ Report(c, "edit", id, 0, "ok")
          ELSE /\ Report(c, "edit", id, 0, "not-found")
               /\ UNCHANGED <<store, currentEditingItem, edits>>
    /\ UNCHANGED <<contributions, nextId, pc, txn, committed>>

\* handleDeleteItem: deleteDoc of the item's document; the subcollection stays.
handleDeleteItem(c) ==
    /\ pc[c] = "idle"
    /\ outcome[c] = NoOutcome
    /\ IF currentEditingItem[c] = NoItem \/ ~isAdmin(c)
       THEN /\ Report(c, "delete", currentEditingItem[c].id, 0, "denied")
            /\ UNCHANGED <<store, currentEditingItem>>
       ELSE LET id == currentEditingItem[c].id
            IN /\ store' = [store EXCEPT ![id] = NoDoc]
               /\ currentEditingItem' = [currentEditingItem EXCEPT ![c] = NoItem]
               /\ Report(c, "delete", id, 0, "ok")
    /\ UNCHANGED <<contributions, nextId, pc, txn, edits, committed>>

\* The OK button of the alert modal, which covers the page while it shows.
DismissAlert(c) ==
    /\ outcome[c] # NoOutcome
    /\ outcome' = [outcome EXCEPT ![c] = NoOutcome]
    /\ UNCHANGED <<store, contributions, nextId, currentEditingItem, pc, txn, edits, committed>>

\* handleContribute, up to its first await.  The form that submits to it is
\* rendered only while the snapshot's status is 'Pending'.
handleContribute(c, input) ==
    /\ pc[c] = "idle"
    /\ outcome[c] = NoOutcome
    /\ currentEditingItem[c] # NoItem
    /\ currentEditingItem[c].status = "Pending"
    /\ LET item == currentEditingItem[c]
           amount == parseFloat(input)
       IN IF item.contributionType = "item"
          THEN /\ pc' = [pc EXCEPT ![c] = "updateDoc"]
               /\ txn' = [txn EXCEPT ![c] =
                            [NoTxn EXCEPT !.id = item.id, !.wasPending = StoredPending(item.id)]]
               /\ UNCHANGED outcome
          ELSE IF item.contributionType = "cash" /\ item.isPartialAllowed
          THEN IF amount.isNaN \/ amount.n <= 0
               THEN /\ Report(c, "contribute", item.id, 0, "invalid")
                    /\ UNCHANGED <<pc, txn>>
               ELSE /\ pc' = [pc EXCEPT ![c] = "txnGet"]
                    /\ txn' = [txn EXCEPT ![c] =
                            [id |-> item.id, amount |-> amount.n, attempt |-> 1,
                             read |-> NoDoc, wasPending |-> StoredPending(item.id)]]
                    /\ UNCHANGED outcome
          ELSE \* no branch for a cash item without partial contributions
               /\ Report(c, "contribute", item.id, amount.n, "ignored")
               /\ UNCHANGED <<pc, txn>>
    /\ UNCHANGED <<store, contributions, nextId, currentEditingItem, edits, committed>>

\* The updateDoc of the 'item' branch reaches the store.
SignUpWrite(c) ==
    /\ pc[c] = "updateDoc"
    /\ LET id == txn[c].id
       IN IF Exists(id)
          THEN /\ store' = [store EXCEPT ![id] = SignedUp(@, c)]
               /\ currentEditingItem' = [currentEditingItem EXCEPT ![c] = NoItem]
               /\ Report(c, "signup", id, 0, "ok")
          ELSE /\ Report(c, "signup", id, 0, "not-found")
               /\ UNCHANGED <<store, currentEditingItem>>
    /\ pc' = [pc EXCEPT ![c] = "idle"]
    /\ txn' = [txn EXCEPT ![c] = NoTxn]
    /\ UNCHANGED <<contributions, nextId, edits, committed>>

\* transaction.get(itemRef) of one attempt; a missing document throws, and a
\* thrown Error is not retried.
TxnGet(c) ==
    /\ pc[c] = "txnGet"
    /\ LET id == txn[c].id
       IN IF Exists(id)
          THEN /\ txn' = [txn EXCEPT ![c].read = store[id]]
               /\ pc' = [pc EXCEPT ![c] = "txnCommit"]
               /\ UNCHANGED outcome
          ELSE /\ Report(c, "contribute", id, txn[c].amount, "not-found")
               /\ pc' = [pc EXCEPT ![c] = "idle"]
               /\ txn' = [txn EXCEPT ![c] = NoTxn]
    /\ UNCHANGED <<store, contributions, nextId, currentEditingItem, edits, committed>>

\* Mutant of TxnCommit: the item is written with set(), which needs no
\* existing document, so a commit re-creates an item deleted after the read.
TxnCommit_Upsert(c) ==
    /\ pc[c] = "txnCommit"
    /\ LET id == txn[c].id
           read == txn[c].read
       IN IF ~Exists(id) \/ store[id].version = read.version
          THEN /\ store' = [store EXCEPT ![id] = Contributed(read, read, txn[c].amount)]
               /\ contributions' = [contributions EXCEPT ![id] =
                                       Append(@, ContributionRecord(c, txn[c].amount))]
               /\ committed' = [committed EXCEPT ![id] = @ + 1]
               /\ currentEditingItem' = [currentEditingItem EXCEPT ![c] = NoItem]
               /\ Report(c, "contribute", id, txn[c].amount, "ok")
               /\ pc' = [pc EXCEPT ![c] = "idle"]
               /\ txn' = [txn EXCEPT ![c] = NoTxn]
          ELSE IF txn[c].attempt < MaxAttempts
          THEN /\ txn' = [txn EXCEPT ![c].attempt = @ + 1, ![c].read = NoDoc]
               /\ pc' = [pc EXCEPT ![c] = "txnGet"]
               /\ UNCHANGED <<store, contributions, committed, currentEditingItem, outcome>>
          ELSE /\ Report(c, "contribute", id, txn[c].amount, "conflict")
               /\ pc' = [pc EXCEPT ![c] = "idle"]
               /\ txn' = [txn EXCEPT ![c] = NoTxn]
               /\ UNCHANGED <<store, contributions, committed, currentEditingItem>>
    /\ UNCHANGED <<nextId, edits>>

\* Mutant of TxnCommit: the writes are a plain update of the values computed
\* from the read, with no check that the document is still the one read.
TxnCommit_LastWriteWins(c) ==
    /\ pc[c] = "txnCommit"
    /\ LET id == txn[c].id
           read == txn[c].read
       IN IF Exists(id)
          THEN /\ store' = [store EXCEPT ![id] = Contributed(@, read, txn[c].amount)]
               /\ contributions' = [contributions EXCEPT ![id] =
                                       Append(@, ContributionRecord(c, txn[c].amount))]
               /\ committed' = [committed EXCEPT ![id] = @ + 1]
               /\ currentEditingItem' = [currentEditingItem EXCEPT ![c] = NoItem]
               /\ Report(c, "contribute", id, txn[c].amount, "ok")
               /\ pc' = [pc EXCEPT ![c] = "idle"]
               /\ txn' = [txn EXCEPT ![c] = NoTxn]
          ELSE /\ Report(c, "contribute", id, txn[c].amount, "not-found")
               /\ pc' = [pc EXCEPT ![c] = "idle"]
               /\ txn' = [txn EXCEPT ![c] = NoTxn]
               /\ UNCHANGED <<store, contributions, committed, currentEditingItem>>
    /\ UNCHANGED <<nextId, edits>>

\* Mutant of TxnCommit: a lost attempt is retried without counting it.
TxnCommit_NoBound(c) ==
    /\ pc[c] = "txnCommit"
    /\ LET id == txn[c].id
           read == txn[c].read
       IN IF Exists(id) /\ store[id].version = read.version
          THEN /\ store' = [store EXCEPT ![id] = Contributed(@, read, txn[c].amount)]
               /\ contributions' = [contributions EXCEPT ![id] =
                                       Append(@, ContributionRecord(c, txn[c].amount))]
               /\ committed' = [committed EXCEPT ![id] = @ + 1]
               /\ currentEditingItem' = [currentEditingItem EXCEPT ![c] = NoItem]
               /\ Report(c, "contribute", id, txn[c].amount, "ok")
               /\ pc' = [pc EXCEPT ![c] = "idle"]
               /\ txn' = [txn EXCEPT ![c] = NoTxn]
          ELSE /\ txn' = [txn EXCEPT ![c].read = NoDoc]
               /\ pc' = [pc EXCEPT ![c] = "txnGet"]
               /\ UNCHANGED <<store, contributions, committed, currentEditingItem, outcome>>
    /\ UNCHANGED <<nextId, edits>>

\* The commit of one attempt: both writes apply if the document is still the
\* one that was read; otherwise the attempt is retried, MaxAttempts in all.
TxnCommit(c) ==
    /\ pc[c] = "txnCommit"
    /\ LET id == txn[c].id
           read == txn[c].read
       IN IF Exists(id) /\ store[id].version = read.version
          THEN /\ store' = [store EXCEPT ![id] = Contributed(@, read, txn[c].amount)]
               /\ contributions' = [contributions EXCEPT ![id] =
                                       Append(@, ContributionRecord(c, txn[c].amount))]
               /\ committed' = [committed EXCEPT ![id] = @ + 1]
               /\ currentEditingItem' = [currentEditingItem EXCEPT ![c] = NoItem]
               /\ Report(c, "contribute", id, txn[c].amount, "ok")
               /\ pc' = [pc EXCEPT ![c] = "idle"]
               /\ txn' = [txn EXCEPT ![c] = NoTxn]
          ELSE IF txn[c].attempt < MaxAttempts
          THEN /\ txn' = [txn EXCEPT ![c].attempt = @ + 1, ![c].read = NoDoc]
               /\ pc' = [pc EXCEPT ![c] = "txnGet"]
               /\ UNCHANGED <<store, contributions, committed, currentEditingItem, outcome>>
          ELSE /\ Report(c, "contribute", id, txn[c].amount, "conflict")
               /\ pc' = [pc EXCEPT ![c] = "idle"]
               /\ txn' = [txn EXCEPT ![c] = NoTxn]
               /\ UNCHANGED <<store, contributions, committed, currentEditingItem>>
    /\ UNCHANGED <<nextId, edits>>

Next ==
    \/ \E c \in Clients, id \in ItemIds : OpenDetails(c, id)
    \/ \E c \in Clients, ctype \in ContributionTypes, p \in BOOLEAN, cost \in Costs :
          AddItem(c, ctype, p, cost)
    \/ \E c \in Clients, ctype \in ContributionTypes, p \in BOOLEAN, cost \in Costs :
          EditItem(c, ctype, p, cost)
    \/ \E c \in Clients : handleDeleteItem(c)
    \/ \E c \in Clients, input \in AmountInputs : handleContribute(c, input)
    \/ \E c \in Clients : SignUpWrite(c)
    \/ \E c \in Clients : TxnGet(c)
    \/ \E c \in Clients : TxnCommit(c)
    \/ \E c \in Clients : DismissAlert(c)

Spec == Init /\ [][Next]_vars

\* ------------------------------------------------- the contribution race
\* N callers have the details modal of one fresh cash item with partial
\* contributions open and have each submitted the same amount, N of which
\* make exactly the expected cost.  Only their transactions run.
InitRace ==
    \E n \in 1 .. NumRacers, each \in 1 .. MaxAmount :
        /\ store = [id \in {1} |-> NewItem(itemData("cash", TRUE, n * each))]
        /\ contributions = [id \in {1} |-> <<>>]
        /\ nextId = 2
        /\ currentEditingItem = [c \in 1 .. n |-> ItemSnapshot(1)]
        /\ pc = [c \in 1 .. n |-> "txnGet"]
        /\ txn = [c \in 1 .. n |->
                    [id |-> 1, amount |-> each, attempt |-> 1, read |-> NoDoc,
                     wasPending |-> TRUE]]
        /\ outcome = [c \in 1 .. n |-> NoOutcome]
        /\ edits = [id \in {1} |-> 0]
        /\ committed = [id \in {1} |-> 0]

NextRace ==
    \/ \E c \in Clients : TxnGet(c)
    \/ \E c \in Clients : TxnCommit(c)

SpecRace == InitRace /\ [][NextRace]_vars

\* ------------------------------------------------------- sample seeding
\* One entry of sampleItems, as transaction.set stores it.
SampleItem(ctype, cost, partial, contributed) ==
    [exists |-> TRUE,
     contributionType |-> ctype,
     expectedCost |-> cost,
     isPartialAllowed |-> partial,
     status |-> "Pending",
     currentContributions |-> contributed,
     contributorId |-> NoUser,
     version |-> 1]

\* Alter Table, Bema Table, New Flag Pole.
sampleItems ==
    <<SampleItem("item", 1500, FALSE, 0),
      SampleItem("cash", 800, TRUE, 250),
      SampleItem("cash", 5000, TRUE, 0)>>

\* doc(wishlistCollection): the k-th fresh id of client c's seeding.
SeedId(c, k) == Len(sampleItems) * (c - 1) + k

\* querySnapshot.empty
CollectionEmpty == \A id \in ItemIds : ~Exists(id)

\* checkAndAddSamples, up to the answer of getDocs: an empty collection
\* starts the seeding transaction (which is not awaited), and the data
\* counts as loaded either way.
getDocs(c) ==
    /\ pc[c] = "getDocs"
    /\ pc' = [pc EXCEPT ![c] = IF CollectionEmpty THEN "seed" ELSE "idle"]
    /\ UNCHANGED <<store, contributions, nextId, currentEditingItem, txn, outcome,
                   edits, committed>>

\* The seeding transaction commits: it has no reads, so nothing can make it
\* fail, and it sets the three sample documents under fresh ids.
SeedWrite(c) ==
    /\ pc[c] = "seed"
    /\ store' = [id \in ItemIds |->
                   IF \E k \in DOMAIN sampleItems : id = SeedId(c, k)
                   THEN sampleItems[CHOOSE k \in DOMAIN sampleItems : id = SeedId(c, k)]
                   ELSE store[id]]
    /\ pc' = [pc EXCEPT ![c] = "idle"]
    /\ UNCHANGED <<contributions, nextId, currentEditingItem, txn, outcome, edits, committed>>

\* NumSeeders sessions start up against the empty collection; addDoc hands
\* out the ids after those the seedings can use.
InitSeed ==
    LET ids == 1 .. Len(sampleItems) * NumSeeders + MaxItems
    IN /\ store = [id \in ids |-> NoDoc]
       /\ contributions = [id \in ids |-> <<>>]
       /\ nextId = Len(sampleItems) * NumSeeders + 1
       /\ currentEditingItem = [c \in 1 .. NumSeeders |-> NoItem]
       /\ pc = [c \in 1 .. NumSeeders |-> "getDocs"]
       /\ txn = [c \in 1 .. NumSeeders |-> NoTxn]
       /\ outcome = [c \in 1 .. NumSeeders |-> NoOutcome]
       /\ edits = [id \in ids |-> 0]
       /\ committed = [id \in ids |-> 0]

NextSeed ==
    \/ \E c \in Clients : getDocs(c)
    \/ \E c \in Clients : SeedWrite(c)
    \/ \E c \in Clients, ctype \in ContributionTypes, p \in BOOLEAN, cost \in Costs :
          AddItem(c, ctype, p, cost)
    \/ \E c \in Clients, id \in ItemIds : OpenDetails(c, id)
    \/ \E c \in Clients : handleDeleteItem(c)
    \/ \E c \in Clients : DismissAlert(c)

SpecSeed == InitSeed /\ [][NextSeed]_vars

\* ================================================================ claims
\* The vocabulary of the specification, read off the stored document.
Claimed(d) == d.contributorId # NoUser
Exclusive(d) == d.contributionType = "item"
Cumulative(d) == d.contributionType = "cash"
\* Invariant 3 of the specification: when an item counts as fulfilled.
FulfilledRule(d) ==
    \/ Exclusive(d) /\ Claimed(d)
    \/ Cumulative(d) /\ d.currentContributions >= d.expectedCost
\* The amounts of a contribution log, added up.
RECURSIVE SumAmounts(_)
SumAmounts(s) == IF s = <<>> THEN 0 ELSE Head(s).amount + SumAmounts(Tail(s))

\* The item is in the store before and after the step.
Stays(id) == Exists(id) /\ store'[id].exists

\* C1: an item that was created and then only contributed to never holds
\* more than its expected cost.
C1_TotalWithinTarget ==
    \A id \in ItemIds :
        (Exists(id) /\ edits[id] = 0) =>
            store[id].currentContributions <= store[id].expectedCost

\* C2: of two no-amount contributions that were both sent while the stored
\* exclusive item was still Pending, at most one reports success.
SignUpSucceeded(c, id) ==
    /\ outcome[c].op = "signup"
    /\ outcome[c].id = id
    /\ outcome[c].wasPending
    /\ outcome[c].result = "ok"

C2_ExclusiveRaceOneWinner ==
    \A id \in ItemIds : \A c1, c2 \in Clients :
        (c1 # c2 /\ Exists(id) /\ Exclusive(store[id]) /\ edits[id] = 0) =>
            ~(SignUpSucceeded(c1, id) /\ SignUpSucceeded(c2, id))

\* C3: an exclusive item that only receives contributions has at most one
\* contribution record, and once it is claimed no step changes its claimant.
C3_ClaimedAtMostOnce ==
    [][\A id \in ItemIds :
         (Stays(id) /\ Exclusive(store[id]) /\ edits'[id] = 0) =>
            /\ Len(contributions'[id]) <= 1
            /\ Claimed(store[id]) => store'[id].contributorId = store[id].contributorId]_vars

\* C4: a stored item is 'Completed' exactly when the fulfilment rule holds of it.
C4_CompletedIffFulfilled ==
    \A id \in ItemIds :
        Exists(id) => (store[id].status = "Completed" <=> FulfilledRule(store[id]))

\* C5: no step changes the total, the status, the claimant or the
\* contribution log of an item that is stored as 'Completed'.
C5_CompletedIsFinal ==
    [][\A id \in ItemIds :
         (Stays(id) /\ store[id].status = "Completed") =>
            /\ store'[id].currentContributions = store[id].currentContributions
            /\ store'[id].status = store[id].status
            /\ store'[id].contributorId = store[id].contributorId
            /\ contributions'[id] = contributions[id]]_vars

\* C6 (as stated): in the race of N callers whose equal amounts make exactly
\* the expected cost, no call fails, and once all have returned every call
\* has succeeded, the total is the expected cost, the status is 'Completed'
\* and the log holds N records.
RaceOver == \A c \in Clients : pc[c] = "idle"

C6_AllRacersSucceed ==
    /\ \A c \in Clients : outcome[c].result \notin {"conflict", "not-found"}
    /\ RaceOver =>
          /\ \A c \in Clients : outcome[c].op = "contribute" /\ outcome[c].result = "ok"
          /\ store[1].currentContributions = store[1].expectedCost
          /\ store[1].status = "Completed"
          /\ Len(contributions[1]) = Cardinality(Clients)

\* C6 (amended): the same, for races of at most MaxAttempts callers.
C6_RacersWithinAttemptsSucceed ==
    Cardinality(Clients) <= MaxAttempts => C6_AllRacersSucceed

\* A race of MaxAttempts callers has ended and all of them are in the log.
C6_Witness ==
    /\ Cardinality(Clients) = MaxAttempts
    /\ RaceOver
    /\ Len(contributions[1]) = MaxAttempts

\* C7: for every stored item, the log holds one record per transaction that
\* reported success, and the total is the total at creation (0) plus the
\* amounts in the log.
C7_LogMatchesTotal ==
    \A id \in ItemIds :
        Exists(id) =>
            /\ Len(contributions[id]) = committed[id]
            /\ store[id].currentContributions = SumAmounts(contributions[id])

\* Two contributions are in an item's log while another caller's transaction
\* has lost an attempt and is about to read again.
C7_Witness ==
    \E id \in ItemIds, c \in Clients :
        /\ Exists(id)
        /\ Len(contributions[id]) >= 1
        /\ store[id].currentContributions > 0
        /\ pc[c] = "txnGet"
        /\ txn[c].id = id
        /\ txn[c].attempt > 1

\* C8: no step raises the total of a cash item with partial contributions
\* above the expected cost it is stored with.
C8_OvershootRejected ==
    [][\A id \in ItemIds :
         (/\ Stays(id)
          /\ Cumulative(store[id]) /\ store[id].isPartialAllowed
          /\ store'[id].currentContributions # store[id].currentContributions) =>
            store'[id].currentContributions <= store[id].expectedCost]_vars

\* C9: when a caller's Contribute on a cash item without partial
\* contributions that is not 'Completed' returns, it has succeeded and
\* fulfilled the item if its amount was the remaining balance, and it was
\* rejected as invalid and changed nothing if it was another positive amount.
ContributeReturns(c) ==
    /\ outcome'[c] # outcome[c]
    /\ outcome'[c].op = "contribute"

C9_ExactAmountOnly ==
    [][\A c \in Clients :
         LET id == outcome'[c].id
             amount == outcome'[c].amount
         IN (/\ ContributeReturns(c)
             /\ id \in ItemIds
             /\ Stays(id)
             /\ Cumulative(store[id]) /\ ~store[id].isPartialAllowed
             /\ store[id].status # "Completed"
             /\ currentEditingItem[c].id = id
             /\ currentEditingItem[c].contributionType = "cash"
             /\ ~currentEditingItem[c].isPartialAllowed
             /\ amount > 0) =>
                IF amount = store[id].expectedCost - store[id].currentContributions
                THEN /\ outcome'[c].result = "ok"
                     /\ store'[id].currentContributions = store[id].expectedCost
                     /\ store'[id].status = "Completed"
                     /\ Len(contributions'[id]) = Len(contributions[id]) + 1
                ELSE /\ outcome'[c].result = "invalid"
                     /\ store'[id] = store[id]
                     /\ contributions'[id] = contributions[id]]_vars

\* C10: an edit that lowers the expected cost of a 'Signed Up' cash item to
\* its total or below leaves the item 'Completed', with no new record.
C10_EditRederivesStatus ==
    [][\A id \in ItemIds :
         (/\ Stays(id)
          /\ edits'[id] = edits[id] + 1
          /\ Cumulative(store[id]) /\ Cumulative(store'[id])
          /\ store[id].status = "Signed Up"
          /\ store'[id].expectedCost <= store[id].currentContributions) =>
            /\ store'[id].status = "Completed"
            /\ contributions'[id] = contributions[id]]_vars

\* The item was in the store and has been deleted (ids are never reused).
Deleted(id) == id < nextId /\ ~Exists(id)
\* Caller c's request, which was in flight, returns in this step.
Returns(c) == pc[c] # "idle" /\ pc'[c] = "idle"
\* The alert 'An error occurred ... Please try again.' of the catch blocks.
ErrorResults == {"not-found", "conflict"}

AdminOps == {"add", "edit", "delete"}

C12_AdminOnlyMutations ==
    [][\A c \in Clients :
         (c # AdminUid /\ outcome'[c] # outcome[c]) =>
            /\ outcome'[c].op \in AdminOps =>
                  /\ outcome'[c].result = "denied"
                  /\ store' = store
                  /\ contributions' = contributions
            /\ nextId' = nextId
            /\ edits' = edits
            /\ \A id \in ItemIds : Exists(id) => store'[id].exists]_vars

\* A caller who is not the admin has been refused the deletion of a stored item.
C12_Witness ==
    \E c \in Clients :
        /\ c # AdminUid
        /\ outcome[c].op = "delete"
        /\ outcome[c].result = "denied"
        /\ outcome[c].id \in ItemIds
        /\ Exists(outcome[c].id)

\* C13: when a caller calls Contribute on a stored cash item with no amount
\* or with an amount that is not a positive number, the call is answered at
\* once with the invalid-amount message and no request leaves for the store.
\* (A call with a positive amount starts a transaction that carries it.)
ContributesWithoutAmount(c) ==
    /\ pc[c] = "idle"
    /\ \/ pc'[c] = "updateDoc"
       \/ /\ outcome'[c] # outcome[c]
          /\ outcome'[c].op = "contribute"
          /\ outcome'[c].amount <= 0

C13_InvalidAmountRejected ==
    [][\A c \in Clients :
         LET id == currentEditingItem[c].id
         IN (/\ ContributesWithoutAmount(c)
             /\ id \in ItemIds
             /\ Exists(id)
             /\ Cumulative(store[id])) =>
                /\ outcome'[c].result = "invalid"
                /\ pc'[c] = "idle"
                /\ store' = store
                /\ contributions' = contributions]_vars

\* C13, for the one view that has an amount field: the same call from a
\* details modal that shows a cash item with partial contributions.
C13_PartialViewRejected ==
    [][\A c \in Clients :
         (/\ ContributesWithoutAmount(c)
          /\ currentEditingItem[c].id \in ItemIds
          /\ currentEditingItem[c].contributionType = "cash"
          /\ currentEditingItem[c].isPartialAllowed) =>
             /\ outcome'[c].result = "invalid"
             /\ pc'[c] = "idle"
             /\ store' = store
             /\ contributions' = contributions]_vars

\* C14: whenever a Contribute call on an item that is not in the store
\* returns, whatever the caller's details modal shows, the caller is shown an
\* error message, and the step creates neither an item nor a record.
ErrorMessages == ErrorResults \cup {"invalid"}

C14_AbsentItemFails ==
    [][\A c \in Clients :
         LET id == outcome'[c].id
         IN (/\ outcome'[c] # outcome[c]
             /\ outcome'[c].op \in {"contribute", "signup"}
             /\ id \in ItemIds
             /\ ~Exists(id)) =>
                /\ outcome'[c].result \in ErrorMessages
                /\ store' = store
                /\ contributions' = contributions]_vars

\* C15: in the step in which an item first appears in the store, whoever
\* writes it, its status is 'Pending' and its total is 0.
C15_CreatedPendingAtZero ==
    [][\A id \in ItemIds :
         (~Exists(id) /\ store'[id].exists) =>
            /\ store'[id].status = "Pending"
            /\ store'[id].currentContributions = 0]_vars

\* C16: no step lowers the total of an item that stays in the store.
C16_TotalNeverDecreases ==
    [][\A id \in ItemIds :
         Stays(id) =>
            store'[id].currentContributions >= store[id].currentContributions]_vars

\* An item has been edited and has received two contributions, the last of
\* which has just been reported to its caller.
C16_Witness ==
    \E id \in ItemIds, c \in Clients :
        /\ Exists(id)
        /\ edits[id] >= 1
        /\ Len(contributions[id]) >= 2
        /\ store[id].currentContributions >= 2
        /\ outcome[c].op = "contribute"
        /\ outcome[c].result = "ok"

\* C17: a successful edit leaves the item's total, status, claimant and log
\* as they were, so that the total is still the sum of the log's amounts,
\* also while a contribution to the item is in flight.
C17_EditKeepsContributions ==
    [][\A id \in ItemIds :
         (Stays(id) /\ edits'[id] # edits[id]) =>
            /\ store'[id].currentContributions = store[id].currentContributions
            /\ store'[id].status = store[id].status
            /\ store'[id].contributorId = store[id].contributorId
            /\ contributions'[id] = contributions[id]
            /\ store'[id].currentContributions = SumAmounts(contributions'[id])]_vars

\* An item that holds a contribution has been edited while another caller's
\* contribution to it was between its read and its commit.
C17_Witness ==
    \E id \in ItemIds, c \in Clients :
        /\ Exists(id)
        /\ edits[id] >= 1
        /\ store[id].currentContributions >= 1
        /\ pc[c] = "txnCommit"
        /\ txn[c].id = id
        /\ txn[c].read.version < store[id].version
        /\ txn[c].read.currentContributions = store[id].currentContributions

\* C18: the log of an item that is not in the store is empty.
C18_NoOrphanRecords ==
    \A id \in ItemIds : ~Exists(id) => contributions[id] = <<>>

\* C19: a contribution without an amount (a sign-up) is never applied to an
\* item that is stored as a cash item: no step sets the claimant, or
\* changes the status without changing the total, of such an item.
C19_StoredModeDecides ==
    [][\A id \in ItemIds :
         (Stays(id) /\ Cumulative(store[id])) =>
            /\ store'[id].contributorId = store[id].contributorId
            /\ store'[id].currentContributions = store[id].currentContributions
                  => store'[id].status = store[id].status]_vars

\* How far caller c's transaction has got: two steps per attempt.
Rank(c) == 2 * txn[c].attempt + (IF pc[c] = "txnCommit" THEN 1 ELSE 0)
InTransaction(c) == pc[c] \in {"txnGet", "txnCommit"}
\* The document caller c's transaction read has been written or deleted since.
SupersededRead(c) ==
    ~Exists(txn[c].id) \/ store[txn[c].id].version # txn[c].read.version

PartiallyFunded(id) ==
    /\ Exists(id)
    /\ Cumulative(store[id]) /\ store[id].isPartialAllowed
    /\ store[id].status = "Signed Up"
    /\ 0 < store[id].currentContributions
    /\ store[id].currentContributions < store[id].expectedCost

\* C21: a caller who has the details modal open on a partially funded item
\* as it is stored, and has nothing else going on, can submit a contribution
\* of one unit, which is no more than the remaining balance.
C21_PartiallyFundedAccepts ==
    \A id \in ItemIds, c \in Clients :
        (/\ PartiallyFunded(id)
         /\ pc[c] = "idle"
         /\ outcome[c] = NoOutcome
         /\ currentEditingItem[c] = ItemSnapshot(id)) =>
            ENABLED handleContribute(c, [blank |-> FALSE, n |-> 1])

\* C22: no step moves the status of an item that stays in the store to one
\* that comes earlier in the order Pending, Signed Up, Completed.
C22_StatusNeverRegresses ==
    [][\A id \in ItemIds :
         Stays(id) =>
            statusOrder(store'[id].status) >= statusOrder(store[id].status)]_vars

\* The stored copies of the k-th sample item.
SampleCopies(k) == {c \in Clients : Exists(SeedId(c, k))}

\* C23: the store never holds more than one copy of a sample item; and a
\* seeding transaction commits only into an empty collection, where it
\* leaves the three sample items.
C23_SeededAtMostOnce ==
    /\ [](\A k \in DOMAIN sampleItems : Cardinality(SampleCopies(k)) <= 1)
    /\ [][\A c \in Clients :
            (pc[c] = "seed" /\ pc'[c] = "idle") =>
               /\ CollectionEmpty
               /\ \A k \in DOMAIN sampleItems :
                     store'[SeedId(c, k)] = sampleItems[k]]_vars

====
